---- MODULE Spec2Model ----
(***************************************************************************)
(* Room automation controller (ESP32 sketch, src/src/main.cpp).            *)
(*                                                                         *)
(* The state is the sketch's global variables, the clock millis() and the  *)
(* position of loop() among the six calls it makes.  One action models one *)
(* call of loop(); the environment supplies the HTTP request, the card,    *)
(* the distance and the DHT reading drawn from small sets.                 *)
(*                                                                         *)
(* Time is kept in milliseconds on a grid of TickMs.  millis() is an       *)
(* unsigned 32-bit counter that wraps after about 49.7 days; the model     *)
(* covers the first MaxTicks ticks after setup() and does not reach the    *)
(* wrap.                                                                   *)
(***************************************************************************)
EXTENDS Integers, Sequences, FiniteSets, TLC

(***************************************************************************)
(* Configuration and constants of the sketch                               *)
(***************************************************************************)
DISTANCIA_PRESENCA_CM == 20
tempacionamento == 25
tempdesligamento == 22
tempoMinimoPresenca == 5000
intervaloLeituraTemp == 5000

UID_ANNE == <<207, 219, 197, 196>>
UID_VICTOR == <<30, 157, 226, 105>>
usuariosAutorizados ==
    << [uid |-> UID_ANNE, nome |-> "Anne Beatriz"],
       [uid |-> UID_VICTOR, nome |-> "Victor Augusto"] >>
totalUsuarios == Len(usuariosAutorizados)

\* The messages written to mensagemSistema (accents dropped).
MSG_VAZIA == ""
MSG_AUSENCIA == "Luz e ventoinha manual desligadas por ausencia."
MSG_AUTO_LIGADA == "Ventoinha LIGADA automaticamente por temperatura alta."
MSG_AUTO_DESLIGADA == "Ventoinha DESLIGADA automaticamente."
MSG_LUZ_LIGADA == "Luz ligada com sucesso."
MSG_LUZ_VAZIA == "Nao e possivel ligar a luz: sala esta vazia."
MSG_LUZ_DESLIGADA == "Luz desligada."
MSG_VENT_LIGADA == "Ventilacao manual ligada com sucesso."
MSG_VENT_VAZIA == "Nao e possivel ligar a ventoinha: sala esta vazia."
MSG_VENT_DESLIGADA == "Ventilacao manual desligada."

(***************************************************************************)
(* Bounds of the model and the inputs the environment draws                *)
(***************************************************************************)
\* Number of clock ticks after setup() that the model follows.
MaxTicks == 3

\* Grid of the clock: half the dwell time, so that "before the dwell has
\* elapsed" and "once it has elapsed" are different clock values.
TickMs == tempoMinimoPresenca \div 2

\* millis() when loop() first runs: setup() has slept 2000 ms and 3000 ms.
SetupMs == 2000 + 3000

MaxTime == SetupMs + MaxTicks * TickMs

\* A UID that is in nobody's entry of usuariosAutorizados.
UID_OUTRO == <<1, 2, 3, 4>>

\* rfid.uid as PICC_ReadCardSerial leaves it: the size of the UID (4, 7 or 10
\* bytes: single, double or triple size) and its first four bytes.
Cards == [size : {4, 7, 10}, uidByte : {UID_ANNE, UID_VICTOR, UID_OUTRO}]
NoCard == [size |-> 0, uidByte |-> <<0, 0, 0, 0>>]

\* The credentials of the authorized set: a 4-byte UID equal to an entry.
AuthorizedSet ==
    {c \in Cards : c.size = 4 /\ \E i \in 1..totalUsuarios : usuariosAutorizados[i].uid = c.uidByte}

\* Values of long distancia = ultrasonic1.read(), in cm (0: no echo; the
\* variable is signed, so a negative value is among them).
Distancias == {-1, 0, 15, 20, 21}

\* Temperatures dht.readTemperature() returns, in tenths of a degree.
DhtTemps == {210, 220, 230, 249, 250}

ManualCommands == {"/luz/on", "/luz/off", "/ventilacao/on", "/ventilacao/off"}
Requests == {"none", "/"} \cup ManualCommands

(***************************************************************************)
(* State                                                                   *)
(***************************************************************************)
VARIABLES
    pc,                        \* call of loop() that runs next
    now,                       \* millis()
    mensagemSistema,
    tempoInicioPresenca,
    portaAberta,
    ultimoUID,
    ventilacaoState,
    iluminacaoState,
    ocupacao,
    temperaturaAtual,
    ventilacaoAutomaticaState,
    millisAnterior,
    luzDesligadaManualmente,
    ev,                        \* history: what the last step did
    h_desde,                   \* history: time of the first sample of the current
                               \* unbroken run of present samples, 0 when the
                               \* last sample was not present
    h_manual,                  \* history: a manual command was handled since the
                               \* first sample of that run
    h_autos,                   \* history: automatic activations of the light
                               \* during that run
    h_rearme,                  \* history: the last sample that was not present
                               \* cleared a manual-off flag that was set
    h_leitura                  \* history: outcome of this cycle's temperature
                               \* step, until controleAutomaticoVentoinha runs

vars == << pc, now, mensagemSistema, tempoInicioPresenca, portaAberta, ultimoUID,
           ventilacaoState, iluminacaoState, ocupacao, temperaturaAtual,
           ventilacaoAutomaticaState, millisAnterior, luzDesligadaManualmente,
           ev, h_desde, h_manual, h_autos, h_rearme, h_leitura >>

door == << portaAberta, ultimoUID >>

\* The record kept in ev: the call that ran, its input (request, card or
\* distance), its outcome, the responses it sent on the transport, the message a
\* status view showed, and luzDesligadaManualmente as it was before the step.
Event(op, req, card, dist, out, resp, view) ==
    [op |-> op, req |-> req, card |-> card, dist |-> dist, out |-> out,
     resp |-> resp, view |-> view, flag |-> luzDesligadaManualmente]

Init ==
    /\ pc = "handleClient"
    /\ now = SetupMs
    /\ mensagemSistema = MSG_VAZIA
    /\ tempoInicioPresenca = 0
    /\ portaAberta = FALSE
    /\ ultimoUID = <<0, 0, 0, 0>>
    /\ ventilacaoState = FALSE
    /\ iluminacaoState = FALSE
    /\ ocupacao = FALSE
    /\ temperaturaAtual = 0
    /\ ventilacaoAutomaticaState = FALSE
    /\ millisAnterior = 0
    /\ luzDesligadaManualmente = FALSE
    /\ ev = [op |-> "setup", req |-> "none", card |-> NoCard, dist |-> 0, out |-> "",
             resp |-> 0, view |-> MSG_VAZIA, flag |-> FALSE]
    /\ h_desde = 0
    /\ h_manual = FALSE
    /\ h_autos = 0
    /\ h_rearme = FALSE
    /\ h_leitura = ""

(***************************************************************************)
(* The clock.  Every delay() of the sketch and the time its I/O takes let  *)
(* millis() advance; Tick can fire between any two calls of loop().        *)
(***************************************************************************)
Tick ==
    /\ now + TickMs <= MaxTime
    /\ now' = now + TickMs
    /\ ev' = Event("tick", "none", NoCard, 0, "", 0, MSG_VAZIA)
    /\ UNCHANGED << pc, mensagemSistema, tempoInicioPresenca, portaAberta, ultimoUID,
                    ventilacaoState, iluminacaoState, ocupacao, temperaturaAtual,
                    ventilacaoAutomaticaState, millisAnterior,
                    luzDesligadaManualmente, h_desde, h_manual, h_autos,
                    h_rearme, h_leitura >>

(***************************************************************************)
(* Manual control, called by the web server's routes                       *)
(***************************************************************************)
\* Mutant: switching the light on leaves the manual-off flag as it was.
ControleLuz_semReset(ligar, ocup, luz, flag, msg) ==
    IF ligar
    THEN IF ocup
         THEN [luz |-> TRUE, flag |-> flag, msg |-> MSG_LUZ_LIGADA]
         ELSE [luz |-> luz, flag |-> flag, msg |-> MSG_LUZ_VAZIA]
    ELSE [luz |-> FALSE,
          flag |-> IF ocup THEN TRUE ELSE flag,
          msg |-> MSG_LUZ_DESLIGADA]

\* Mutant: switching the light off never sets the manual-off flag.
ControleLuz_semFlag(ligar, ocup, luz, flag, msg) ==
    IF ligar
    THEN IF ocup
         THEN [luz |-> TRUE, flag |-> FALSE, msg |-> MSG_LUZ_LIGADA]
         ELSE [luz |-> luz, flag |-> flag, msg |-> MSG_LUZ_VAZIA]
    ELSE [luz |-> FALSE, flag |-> flag, msg |-> MSG_LUZ_DESLIGADA]

\* Mutant: switching off a light that is already off leaves the flag alone.
ControleLuz_soSeAcesa(ligar, ocup, luz, flag, msg) ==
    IF ligar
    THEN IF ocup
         THEN [luz |-> TRUE, flag |-> FALSE, msg |-> MSG_LUZ_LIGADA]
         ELSE [luz |-> luz, flag |-> flag, msg |-> MSG_LUZ_VAZIA]
    ELSE [luz |-> FALSE,
          flag |-> IF ocup /\ luz THEN TRUE ELSE flag,
          msg |-> MSG_LUZ_DESLIGADA]

\* Mutant: switching the light off sets the flag whatever the occupancy.
ControleLuz_flagSempre(ligar, ocup, luz, flag, msg) ==
    IF ligar
    THEN IF ocup
         THEN [luz |-> TRUE, flag |-> FALSE, msg |-> MSG_LUZ_LIGADA]
         ELSE [luz |-> luz, flag |-> flag, msg |-> MSG_LUZ_VAZIA]
    ELSE [luz |-> FALSE, flag |-> TRUE, msg |-> MSG_LUZ_DESLIGADA]

\* Mutant: the light is switched on without looking at the occupancy.
ControleLuz_semOcupacao(ligar, ocup, luz, flag, msg) ==
    IF ligar
    THEN [luz |-> TRUE, flag |-> FALSE, msg |-> MSG_LUZ_LIGADA]
    ELSE [luz |-> FALSE,
          flag |-> IF ocup THEN TRUE ELSE flag,
          msg |-> MSG_LUZ_DESLIGADA]

\* controleLuz(ligar): the light, the manual-off flag and the message it
\* leaves, given the stored occupancy.
ControleLuz(ligar, ocup, luz, flag, msg) ==
    IF ligar
    THEN IF ocup
         THEN [luz |-> TRUE, flag |-> FALSE, msg |-> MSG_LUZ_LIGADA]
         ELSE [luz |-> luz, flag |-> flag, msg |-> MSG_LUZ_VAZIA]
    ELSE [luz |-> FALSE,
          flag |-> IF ocup THEN TRUE ELSE flag,
          msg |-> MSG_LUZ_DESLIGADA]

\* Mutant: the manual fan is switched on without looking at the occupancy.
ControleVentilacao_semOcupacao(ligar, ocup, vent, msg) ==
    IF ligar
    THEN [vent |-> TRUE, msg |-> MSG_VENT_LIGADA]
    ELSE [vent |-> FALSE, msg |-> MSG_VENT_DESLIGADA]

\* controleVentilacao(ligar): the manual fan and the message it leaves.
ControleVentilacao(ligar, ocup, vent, msg) ==
    IF ligar
    THEN IF ocup
         THEN [vent |-> TRUE, msg |-> MSG_VENT_LIGADA]
         ELSE [vent |-> vent, msg |-> MSG_VENT_VAZIA]
    ELSE [vent |-> FALSE, msg |-> MSG_VENT_DESLIGADA]

\* Mutant: the page shows the message and leaves it in place.
HandleRoot_semLimpar(msg) == [view |-> msg, msg |-> msg]

\* handleRoot(): the message the page shows and mensagemSistema afterwards:
\* if (mensagemSistema != "") the page shows it and it becomes "".
HandleRoot(msg) ==
    IF msg # MSG_VAZIA
    THEN [view |-> msg, msg |-> MSG_VAZIA]
    ELSE [view |-> MSG_VAZIA, msg |-> msg]

\* server.handleClient(): serves at most one pending request.  "/" and every
\* unknown route run handleRoot, which shows mensagemSistema once and clears
\* it; the four command routes run controleLuz / controleVentilacao, each of
\* which ends in redirectToRoot (one response on the transport).
HandleClient ==
    /\ pc = "handleClient"
    /\ pc' = "lerRfid"
    /\ \E req \in Requests :
        \/ /\ req = "none"
           /\ ev' = Event("handleClient", req, NoCard, 0, "", 0, MSG_VAZIA)
           /\ UNCHANGED << mensagemSistema, iluminacaoState, luzDesligadaManualmente,
                           ventilacaoState >>
        \/ /\ req = "/"
           /\ LET r == HandleRoot(mensagemSistema)
              IN /\ ev' = Event("handleClient", req, NoCard, 0, "status", 1, r.view)
                 /\ mensagemSistema' = r.msg
           /\ UNCHANGED << iluminacaoState, luzDesligadaManualmente, ventilacaoState >>
        \/ /\ req \in {"/luz/on", "/luz/off"}
           /\ LET r == ControleLuz(req = "/luz/on", ocupacao, iluminacaoState,
                                   luzDesligadaManualmente, mensagemSistema)
              IN /\ iluminacaoState' = r.luz
                 /\ luzDesligadaManualmente' = r.flag
                 /\ mensagemSistema' = r.msg
                 /\ ev' = Event("handleClient", req, NoCard, 0,
                                IF r.msg = MSG_LUZ_VAZIA THEN "rejeitado" ELSE "aceito",
                                1, MSG_VAZIA)
           /\ UNCHANGED ventilacaoState
        \/ /\ req \in {"/ventilacao/on", "/ventilacao/off"}
           /\ LET r == ControleVentilacao(req = "/ventilacao/on", ocupacao,
                                          ventilacaoState, mensagemSistema)
              IN /\ ventilacaoState' = r.vent
                 /\ mensagemSistema' = r.msg
                 /\ ev' = Event("handleClient", req, NoCard, 0,
                                IF r.msg = MSG_VENT_VAZIA THEN "rejeitado" ELSE "aceito",
                                1, MSG_VAZIA)
           /\ UNCHANGED << iluminacaoState, luzDesligadaManualmente >>
    /\ h_manual' = (h_manual \/ ev'.req \in ManualCommands)
    /\ UNCHANGED << now, tempoInicioPresenca, portaAberta, ultimoUID, ocupacao,
                    temperaturaAtual, ventilacaoAutomaticaState, millisAnterior,
                    h_desde, h_autos, h_rearme, h_leitura >>

(***************************************************************************)
(* Access control                                                          *)
(***************************************************************************)
\* memcmp(rfid.uid.uidByte, usuariosAutorizados[i].uid, rfid.uid.size) == 0.
\* The entry's uid holds 4 bytes; for a longer UID the comparison runs on into
\* the bytes stored after it (the nome pointer, the next entry, the end of the
\* table).  extra[i] is the outcome of that part of the comparison.
MatchUsuario(card, i, extra) ==
    /\ card.uidByte = usuariosAutorizados[i].uid
    /\ (card.size > 4 => extra[i])

\* The loop over usuariosAutorizados: autorizado.
Autorizado(card, extra) ==
    \E i \in 1..totalUsuarios : MatchUsuario(card, i, extra)

\* Mutant: the door closes for any authorized card.
MesmoUsuario_qualquer(card, ultimo) == TRUE

\* memcmp(rfid.uid.uidByte, ultimoUID, 4) == 0
MesmoUsuario(card, ultimo) == card.uidByte = ultimo

\* The door branch of lerRfid: the new door state, the new ultimoUID
\* (memcpy of 4 bytes) and the feedback given.
PortaPasso(autorizado, card, porta, ultimo) ==
    IF autorizado
    THEN IF ~porta
         THEN [porta |-> TRUE, ultimo |-> card.uidByte, out |-> "aberta"]
         ELSE IF MesmoUsuario(card, ultimo)
              THEN [porta |-> FALSE, ultimo |-> ultimo, out |-> "fechada"]
              ELSE [porta |-> porta, ultimo |-> ultimo, out |-> "outro"]
    ELSE [porta |-> porta, ultimo |-> ultimo, out |-> "negado"]

\* Mutant: reading a card leaves the timer of the temperature reading alone.
TimerAposCartao_mantem(t, anterior) == anterior

\* millisAnterior = millis() at the end of lerRfid, once a card has been read.
TimerAposCartao(t, anterior) == t

\* lerRfid(): returns at once when no card is read; otherwise runs the door
\* branch and ends with millisAnterior = millis().
LerRfid ==
    /\ pc = "lerRfid"
    /\ pc' = "atualizarEstadoOcupacao"
    /\ \/ /\ ev' = Event("lerRfid", "none", NoCard, 0, "", 0, MSG_VAZIA)
          /\ UNCHANGED << portaAberta, ultimoUID, millisAnterior >>
       \/ \E card \in Cards, extra \in [1..totalUsuarios -> BOOLEAN] :
            LET r == PortaPasso(Autorizado(card, extra), card, portaAberta, ultimoUID)
            IN /\ portaAberta' = r.porta
               /\ ultimoUID' = r.ultimo
               /\ millisAnterior' = TimerAposCartao(now, millisAnterior)
               /\ ev' = Event("lerRfid", "none", card, 0, r.out, 0, MSG_VAZIA)
    /\ UNCHANGED << now, mensagemSistema, tempoInicioPresenca, ventilacaoState,
                    iluminacaoState, ocupacao, temperaturaAtual,
                    ventilacaoAutomaticaState, luzDesligadaManualmente, h_desde, h_manual, h_autos,
                    h_rearme, h_leitura >>

(***************************************************************************)
(* Occupancy and the automatic light                                       *)
(***************************************************************************)
\* Mutant: a sample of zero or less counts as present.
PresencaAtual_semZero(distancia) == distancia <= DISTANCIA_PRESENCA_CM

\* presencaAtual = (distancia > 0 && distancia <= DISTANCIA_PRESENCA_CM)
PresencaAtual(distancia) == distancia > 0 /\ distancia <= DISTANCIA_PRESENCA_CM

\* Mutant: a sample that is not present leaves tempoInicioPresenca as it was.
InicioPresenca_semReset(presenca, t, inicio) ==
    IF presenca THEN (IF inicio = 0 THEN t ELSE inicio) ELSE inicio

\* tempoInicioPresenca after the sample: set to millis() when it was 0 and the
\* sample is present, kept while presence lasts, 0 after a sample not present.
InicioPresenca(presenca, t, inicio) ==
    IF presenca THEN (IF inicio = 0 THEN t ELSE inicio) ELSE 0

\* Mutant: the dwell has to be exceeded, not reached.
PresencaConfirmada_estrita(t, inicio) == t - inicio > tempoMinimoPresenca

\* millis() - tempoInicioPresenca >= tempoMinimoPresenca
PresencaConfirmada(t, inicio) == t - inicio >= tempoMinimoPresenca

\* Mutant: the automatic activation ignores the manual-off flag.
AcendeAutomatico_semFlag(presenca, t, inicio, luz, flag) ==
    presenca /\ t - inicio >= tempoMinimoPresenca /\ ~luz

\* The condition under which atualizarEstadoOcupacao calls controleLuz(true).
AcendeAutomatico(presenca, t, inicio, luz, flag) ==
    presenca /\ PresencaConfirmada(t, inicio) /\ ~luz /\ ~flag

\* Mutant: a sample that is not present leaves the flag as it was.
FlagAposAmostra_mantem(presenca, flag) == flag

\* luzDesligadaManualmente as the occupancy update leaves it when it does not
\* call controleLuz: cleared by a sample that is not present.
FlagAposAmostra(presenca, flag) == IF presenca THEN flag ELSE FALSE

\* atualizarEstadoOcupacao(): one distance sample.
AtualizarEstadoOcupacao ==
    /\ pc = "atualizarEstadoOcupacao"
    /\ pc' = "atualizarDisplayTempUmi"
    /\ \E distancia \in Distancias :
        LET presenca == PresencaAtual(distancia)
            inicio == InicioPresenca(presenca, now, tempoInicioPresenca)
            confirmada == presenca /\ PresencaConfirmada(now, inicio)
            acende == AcendeAutomatico(presenca, now, inicio, iluminacaoState,
                                       luzDesligadaManualmente)
            r == ControleLuz(TRUE, presenca, iluminacaoState,
                             luzDesligadaManualmente, mensagemSistema)
        IN /\ ocupacao' = presenca
           /\ tempoInicioPresenca' = inicio
           /\ h_desde' = IF presenca THEN (IF ocupacao THEN h_desde ELSE now) ELSE 0
           /\ h_manual' = (presenca /\ ocupacao /\ h_manual)
           /\ h_autos' = IF presenca /\ ocupacao
                         THEN (IF acende THEN h_autos + 1 ELSE h_autos)
                         ELSE (IF acende THEN 1 ELSE 0)
           /\ h_rearme' = IF presenca THEN h_rearme ELSE luzDesligadaManualmente
           /\ IF acende
              THEN /\ iluminacaoState' = r.luz
                   /\ luzDesligadaManualmente' = r.flag
                   /\ mensagemSistema' = r.msg
              ELSE /\ luzDesligadaManualmente' =
                          FlagAposAmostra(presenca, luzDesligadaManualmente)
                   /\ UNCHANGED << iluminacaoState, mensagemSistema >>
           /\ ev' = Event("atualizarEstadoOcupacao", "none", NoCard, distancia,
                          IF acende THEN "luz_auto"
                          ELSE IF confirmada THEN "confirmada"
                          ELSE IF presenca THEN "presente" ELSE "ausente",
                          IF acende THEN 1 ELSE 0, MSG_VAZIA)
    /\ UNCHANGED << now, portaAberta, ultimoUID, ventilacaoState, temperaturaAtual,
                    ventilacaoAutomaticaState, millisAnterior, h_leitura >>

(***************************************************************************)
(* Temperature and the automatic fan                                       *)
(***************************************************************************)
\* (int)temp of a reading given in tenths of a degree: truncation toward 0.
ParaInt(decimos) ==
    IF decimos >= 0 THEN decimos \div 10 ELSE -((-decimos) \div 10)

\* millis() - millisAnterior < intervaloLeituraTemp: no sample is due.
LeituraNaoDevida(t, anterior) == t - anterior < intervaloLeituraTemp

\* Mutant: a reading that is not valid is stored as 0.
TemperaturaLida_zero(invalida, temp, atual) ==
    IF invalida THEN 0 ELSE ParaInt(temp)

\* temperaturaAtual after a due reading: isnan(umidade) || isnan(temp) returns
\* before the assignment, otherwise temperaturaAtual = (int)temp.
TemperaturaLida(invalida, temp, atual) ==
    IF invalida THEN atual ELSE ParaInt(temp)

\* atualizarDisplayTempUmi(): when a sample is due, restarts the interval and
\* reads the DHT; a reading with a NaN in it leaves temperaturaAtual alone.
AtualizarDisplayTempUmi ==
    /\ pc = "atualizarDisplayTempUmi"
    /\ pc' = "controleAutomaticoVentoinha"
    /\ \/ /\ LeituraNaoDevida(now, millisAnterior)
          /\ ev' = Event("atualizarDisplayTempUmi", "none", NoCard, 0, "", 0, MSG_VAZIA)
          /\ h_leitura' = ""
          /\ UNCHANGED << millisAnterior, temperaturaAtual >>
       \/ /\ ~LeituraNaoDevida(now, millisAnterior)
          /\ millisAnterior' = now
          /\ \E invalida \in BOOLEAN, temp \in DhtTemps :
                /\ temperaturaAtual' = TemperaturaLida(invalida, temp, temperaturaAtual)
                /\ ev' = Event("atualizarDisplayTempUmi", "none", NoCard, 0,
                               IF invalida THEN "erro_sensor" ELSE "leitura", 0, MSG_VAZIA)
                /\ h_leitura' = IF invalida THEN "erro_sensor" ELSE "leitura"
    /\ UNCHANGED << now, mensagemSistema, tempoInicioPresenca, portaAberta, ultimoUID,
                    ventilacaoState, iluminacaoState, ocupacao,
                    ventilacaoAutomaticaState, luzDesligadaManualmente, h_desde, h_manual, h_autos,
                    h_rearme >>

\* Mutant: one threshold, the fan goes off as soon as the temperature is below
\* tempacionamento.
Histerese_umLimiar(temperatura, ligada, msg) ==
    IF temperatura >= tempacionamento /\ ~ligada
    THEN [ligada |-> TRUE, msg |-> MSG_AUTO_LIGADA]
    ELSE IF temperatura < tempacionamento /\ ligada
         THEN [ligada |-> FALSE, msg |-> MSG_AUTO_DESLIGADA]
         ELSE [ligada |-> ligada, msg |-> msg]

\* Mutant: the fan goes on only above tempacionamento.
Histerese_maior(temperatura, ligada, msg) ==
    IF temperatura > tempacionamento /\ ~ligada
    THEN [ligada |-> TRUE, msg |-> MSG_AUTO_LIGADA]
    ELSE IF temperatura < tempdesligamento /\ ligada
         THEN [ligada |-> FALSE, msg |-> MSG_AUTO_DESLIGADA]
         ELSE [ligada |-> ligada, msg |-> msg]

\* Mutant: the two thresholds change places (on from tempdesligamento, off
\* below tempacionamento).
Histerese_limiaresTrocados(temperatura, ligada, msg) ==
    IF temperatura >= tempdesligamento /\ ~ligada
    THEN [ligada |-> TRUE, msg |-> MSG_AUTO_LIGADA]
    ELSE IF temperatura < tempacionamento /\ ligada
         THEN [ligada |-> FALSE, msg |-> MSG_AUTO_DESLIGADA]
         ELSE [ligada |-> ligada, msg |-> msg]

\* The two-threshold decision of controleAutomaticoVentoinha: the new state of
\* the automatic fan and the message it leaves.
Histerese(temperatura, ligada, msg) ==
    IF temperatura >= tempacionamento /\ ~ligada
    THEN [ligada |-> TRUE, msg |-> MSG_AUTO_LIGADA]
    ELSE IF temperatura < tempdesligamento /\ ligada
         THEN [ligada |-> FALSE, msg |-> MSG_AUTO_DESLIGADA]
         ELSE [ligada |-> ligada, msg |-> msg]

\* controleAutomaticoVentoinha()
ControleAutomaticoVentoinha ==
    /\ pc = "controleAutomaticoVentoinha"
    /\ pc' = "verificarDesligamentoPorAusencia"
    /\ LET r == Histerese(temperaturaAtual, ventilacaoAutomaticaState, mensagemSistema)
       IN /\ ventilacaoAutomaticaState' = r.ligada
          /\ mensagemSistema' = r.msg
          /\ ev' = Event("controleAutomaticoVentoinha", "none", NoCard, 0,
                         IF r.ligada = ventilacaoAutomaticaState THEN ""
                         ELSE IF r.ligada THEN "ligada" ELSE "desligada",
                         0, MSG_VAZIA)
    /\ h_leitura' = ""
    /\ UNCHANGED << now, tempoInicioPresenca, portaAberta, ultimoUID, ventilacaoState,
                    iluminacaoState, ocupacao, temperaturaAtual, millisAnterior,
                    luzDesligadaManualmente, h_desde, h_manual, h_autos,
                    h_rearme >>

(***************************************************************************)
(* Switch-off by absence                                                   *)
(***************************************************************************)
\* Mutant: only a light that is on triggers the switch-off.
DesligaPorAusencia_soLuz(ocup, luz, vent) == ~ocup /\ luz

\* !ocupacao && (iluminacaoState || ventilacaoState)
DesligaPorAusencia(ocup, luz, vent) == ~ocup /\ (luz \/ vent)

\* Mutant: the switch-off by absence takes the automatic fan with it.
VerificarDesligamentoPorAusencia_comAuto ==
    /\ pc = "verificarDesligamentoPorAusencia"
    /\ pc' = "handleClient"
    /\ IF DesligaPorAusencia(ocupacao, iluminacaoState, ventilacaoState)
       THEN /\ iluminacaoState' = FALSE
            /\ ventilacaoState' = FALSE
            /\ ventilacaoAutomaticaState' = FALSE
            /\ mensagemSistema' = MSG_AUSENCIA
            /\ ev' = Event("verificarDesligamentoPorAusencia", "none", NoCard, 0,
                           "desligadas", 0, MSG_VAZIA)
       ELSE /\ ev' = Event("verificarDesligamentoPorAusencia", "none", NoCard, 0,
                           "", 0, MSG_VAZIA)
            /\ UNCHANGED << iluminacaoState, ventilacaoState, mensagemSistema,
                            ventilacaoAutomaticaState >>
    /\ UNCHANGED << now, tempoInicioPresenca, portaAberta, ultimoUID, ocupacao,
                    temperaturaAtual, millisAnterior,
                    luzDesligadaManualmente, h_desde, h_manual, h_autos,
                    h_rearme, h_leitura >>

\* verificarDesligamentoPorAusencia(): the last call of loop().
VerificarDesligamentoPorAusencia ==
    /\ pc = "verificarDesligamentoPorAusencia"
    /\ pc' = "handleClient"
    /\ IF DesligaPorAusencia(ocupacao, iluminacaoState, ventilacaoState)
       THEN /\ iluminacaoState' = FALSE
            /\ ventilacaoState' = FALSE
            /\ mensagemSistema' = MSG_AUSENCIA
            /\ ev' = Event("verificarDesligamentoPorAusencia", "none", NoCard, 0,
                           "desligadas", 0, MSG_VAZIA)
       ELSE /\ ev' = Event("verificarDesligamentoPorAusencia", "none", NoCard, 0,
                           "", 0, MSG_VAZIA)
            /\ UNCHANGED << iluminacaoState, ventilacaoState, mensagemSistema >>
    /\ UNCHANGED << now, tempoInicioPresenca, portaAberta, ultimoUID, ocupacao,
                    temperaturaAtual, ventilacaoAutomaticaState, millisAnterior,
                    luzDesligadaManualmente, h_desde, h_manual, h_autos,
                    h_rearme, h_leitura >>

(***************************************************************************)
(* loop()                                                                  *)
(***************************************************************************)
Next ==
    \/ Tick
    \/ HandleClient
    \/ LerRfid
    \/ AtualizarEstadoOcupacao
    \/ AtualizarDisplayTempUmi
    \/ ControleAutomaticoVentoinha
    \/ VerificarDesligamentoPorAusencia

Spec == Init /\ [][Next]_vars

(***************************************************************************)
(* Properties: access control                                              *)
(***************************************************************************)
CardPresented == ev.op = "lerRfid" /\ ev.card # NoCard

\* C1: the door goes from unlocked to locked only in a step of lerRfid whose
\* card is a credential of the authorized set and equal to ultimoUID; no
\* other step locks it.
C1_LockOnlyByHolder ==
    [][ (portaAberta /\ ~portaAberta')
            => /\ ev'.op = "lerRfid"
               /\ ev'.card \in AuthorizedSet
               /\ ev'.card.uidByte = ultimoUID ]_vars

\* C2: with the door unlocked, an authorized credential other than ultimoUID
\* gets the "held by another" outcome and leaves the door unlocked and
\* ultimoUID as it was, and the credential equal to ultimoUID locks the door.
C2_HeldByAnother ==
    [][ (ev'.op = "lerRfid" /\ portaAberta /\ ev'.card \in AuthorizedSet)
            => IF ev'.card.uidByte # ultimoUID
               THEN ev'.out = "outro" /\ portaAberta' /\ ultimoUID' = ultimoUID
               ELSE ev'.out = "fechada" /\ ~portaAberta' ]_vars

\* C2 witness: an authorized card has just been turned away from a door that
\* another authorized card holds open.
C2_Witness ==
    /\ CardPresented
    /\ ev.card \in AuthorizedSet
    /\ ev.out = "outro"
    /\ portaAberta
    /\ ultimoUID # ev.card.uidByte
    /\ \E c \in AuthorizedSet : c.uidByte = ultimoUID

\* C3: a credential that is not in the authorized set is denied, and the door
\* and ultimoUID stay as they were.
C3_DeniedOutsideSet ==
    [][ (ev'.op = "lerRfid" /\ ev'.card # NoCard /\ ev'.card \notin AuthorizedSet)
            => ev'.out = "negado" /\ UNCHANGED door ]_vars

(***************************************************************************)
(* Properties: lighting and occupancy                                      *)
(***************************************************************************)
OccupancySampled == ev.op = "atualizarEstadoOcupacao"
LightOnAccepted == ev.op = "handleClient" /\ ev.req = "/luz/on" /\ ev.out = "aceito"

\* C4: in every reachable state, luzDesligadaManualmente implies that the
\* light is off.
C4_OverrideImpliesLightOff == luzDesligadaManualmente => ~iluminacaoState

\* C4 witness: the flag has been set by a manual light-off in an occupied room.
C4_Witness ==
    /\ ev.op = "handleClient" /\ ev.req = "/luz/off"
    /\ ocupacao /\ luzDesligadaManualmente /\ ~iluminacaoState

\* C5: while luzDesligadaManualmente is true the occupancy update never
\* changes the light, and the only step that turns the light on is a manual
\* light-on command.
C5_NoAutoUnderOverride ==
    [][ luzDesligadaManualmente
            => /\ (ev'.op = "atualizarEstadoOcupacao" => UNCHANGED iluminacaoState)
               /\ ((~iluminacaoState /\ iluminacaoState')
                      => ev'.op = "handleClient" /\ ev'.req = "/luz/on") ]_vars

\* C5 witness: presence is confirmed in a cycle in which the flag is set, and
\* the light stays off.
C5_Witness ==
    /\ OccupancySampled /\ ev.out = "confirmada"
    /\ ev.flag /\ luzDesligadaManualmente /\ ~iluminacaoState

\* C6: the flag is false at the end of every cycle whose sample was not
\* present and right after every accepted manual light-on, and a step clears
\* the flag only if it is one of these two.
C6_OverrideCleared ==
    /\ (pc = "handleClient" /\ ~ocupacao) => ~luzDesligadaManualmente
    /\ LightOnAccepted => ~luzDesligadaManualmente
    /\ (ev.flag /\ ~luzDesligadaManualmente)
          => \/ OccupancySampled /\ ev.out = "ausente"
             \/ LightOnAccepted

\* C6 witness: a sample that is not present has just cleared a flag that was
\* set.
C6_Witness ==
    OccupancySampled /\ ev.out = "ausente" /\ ev.flag /\ ~luzDesligadaManualmente

\* C7: presence is confirmed in a cycle only if the samples have been present
\* without a break for at least tempoMinimoPresenca; a sample that is not
\* present resets tempoInicioPresenca to 0, and the dwell then counts from the
\* first present sample that follows.
C7_ConfirmedNeedsDwell ==
    OccupancySampled
        => /\ ev.out \in {"confirmada", "luz_auto"}
                => h_desde # 0 /\ now - h_desde >= tempoMinimoPresenca
           /\ ev.out = "ausente" => tempoInicioPresenca = 0
           /\ ev.out # "ausente" => tempoInicioPresenca = h_desde

\* C7 witness: presence is confirmed for a run of present samples that began
\* after an earlier run was broken.
C7_Witness ==
    /\ OccupancySampled /\ ev.out \in {"confirmada", "luz_auto"}
    /\ h_desde > SetupMs

\* C8: in a run of present samples with no manual command, the light is off
\* while less than tempoMinimoPresenca has elapsed since the run's first
\* sample, is on after the first sample taken once that time has elapsed, and
\* is activated automatically exactly once in the run.
C8_AutoOnAtDwell ==
    (ocupacao /\ ~h_manual)
        => /\ now - h_desde < tempoMinimoPresenca => ~iluminacaoState /\ h_autos = 0
           /\ (OccupancySampled /\ now - h_desde >= tempoMinimoPresenca)
                 => iluminacaoState /\ h_autos = 1
           /\ h_autos <= 1
           /\ h_autos = 1 => iluminacaoState

\* C8 witness: presence continues after the automatic activation, and a
\* further present sample finds the light on and activates nothing.
C8_Witness ==
    /\ OccupancySampled /\ ev.out = "confirmada"
    /\ ocupacao /\ ~h_manual /\ iluminacaoState /\ h_autos = 1

(***************************************************************************)
(* Properties: automatic fan                                               *)
(***************************************************************************)
InBand(t) == tempdesligamento <= t /\ t < tempacionamento
FanRan == ev.op = "controleAutomaticoVentoinha"

\* C9: no step changes the automatic fan while the stored temperature is in
\* the band tempdesligamento <= T < tempacionamento.
C9_BandStability ==
    [][ InBand(temperaturaAtual) => UNCHANGED ventilacaoAutomaticaState ]_vars

\* C9 witness: the controller has run with the temperature in the band and the
\* fan on, and the fan is still on.
C9_Witness ==
    FanRan /\ InBand(temperaturaAtual) /\ ventilacaoAutomaticaState /\ ev.out = ""

\* The fan states controleAutomaticoVentoinha goes through for a sequence of
\* temperatures, starting from the state ligada.
RECURSIVE FanStates(_, _)
FanStates(temps, ligada) ==
    IF temps = << >> THEN << >>
    ELSE LET r == Histerese(Head(temps), ligada, MSG_VAZIA)
         IN << r.ligada >> \o FanStates(Tail(temps), r.ligada)

\* C10: after controleAutomaticoVentoinha the fan is on if T >= tempacionamento,
\* off if T < tempdesligamento and as it was otherwise; for 24, 25, 23, 21
\* from off it is off, on, on, off.
C10_FanLaw ==
    /\ FanRan
          => /\ temperaturaAtual >= tempacionamento => ventilacaoAutomaticaState
             /\ temperaturaAtual < tempdesligamento => ~ventilacaoAutomaticaState
             /\ InBand(temperaturaAtual) => ev.out = ""
    /\ FanStates(<<24, 25, 23, 21>>, FALSE) = <<FALSE, TRUE, TRUE, FALSE>>

\* C10 witness: the temperature has fallen to 21 with the fan on, and the
\* controller has switched it off.
C10_Witness ==
    FanRan /\ temperaturaAtual = 21 /\ ev.out = "desligada" /\ ~ventilacaoAutomaticaState

(***************************************************************************)
(* Properties: manual commands and switch-off by absence                   *)
(***************************************************************************)
CommandHandled(req) == ev.op = "handleClient" /\ ev.req = req
StatusServed == ev.op = "handleClient" /\ ev.out = "status"

\* C11: a /luz/on or /ventilacao/on command handled while ocupacao is false
\* changes neither the light, nor the manual fan, nor the manual-off flag, and
\* leaves its "room empty" notice in mensagemSistema.
C11_OnRejectedWhenEmpty ==
    [][ (ev'.op = "handleClient" /\ ev'.req \in {"/luz/on", "/ventilacao/on"} /\ ~ocupacao)
            => /\ UNCHANGED << iluminacaoState, ventilacaoState, luzDesligadaManualmente >>
               /\ ev'.out = "rejeitado"
               /\ mensagemSistema' =
                      (IF ev'.req = "/luz/on" THEN MSG_LUZ_VAZIA ELSE MSG_VENT_VAZIA) ]_vars

\* C11 witness: a /luz/on command has just been refused in an empty room.
C11_Witness ==
    /\ CommandHandled("/luz/on") /\ ev.out = "rejeitado"
    /\ ~ocupacao /\ ~iluminacaoState /\ mensagemSistema = MSG_LUZ_VAZIA

\* C12: at the end of every cycle whose sample was not present the light and
\* the manual fan are off, and every status view is served from a state in
\* which the light or the manual fan being on implies ocupacao.
C12_OffAfterAbsentCycle ==
    /\ (pc = "handleClient" /\ ~ocupacao) => (~iluminacaoState /\ ~ventilacaoState)
    /\ StatusServed => ((iluminacaoState \/ ventilacaoState) => ocupacao)

\* C12 witness: the last call of a cycle whose sample was not present has
\* just switched the light or the manual fan off.
C12_Witness ==
    /\ ev.op = "verificarDesligamentoPorAusencia" /\ ev.out = "desligadas"
    /\ pc = "handleClient" /\ ~ocupacao /\ ~iluminacaoState /\ ~ventilacaoState

\* C13: every step that turns the light or the manual fan on starts and ends
\* with ocupacao true.
C13_OnOnlyWhenOccupied ==
    [][ ((~iluminacaoState /\ iluminacaoState') \/ (~ventilacaoState /\ ventilacaoState'))
            => ocupacao /\ ocupacao' ]_vars

\* C13 witness: the manual fan has just been switched on by an accepted
\* command in an occupied room.
C13_Witness ==
    /\ CommandHandled("/ventilacao/on") /\ ev.out = "aceito"
    /\ ocupacao /\ ventilacaoState

\* C14: a /luz/off handled in an occupied room leaves the light off and the
\* manual-off flag set; a set flag and the light off then last through every
\* step that is neither a sample not present nor a /luz/on, also once presence
\* is confirmed; and once a sample not present has cleared the flag, a sample
\* that confirms presence leaves the light on.
C14_OverrideUntilAbsence ==
    /\ (CommandHandled("/luz/off") /\ ocupacao)
          => (~iluminacaoState /\ luzDesligadaManualmente)
    /\ (ev.flag /\ ~(OccupancySampled /\ ev.out = "ausente") /\ ~CommandHandled("/luz/on"))
          => (luzDesligadaManualmente /\ ~iluminacaoState)
    /\ (OccupancySampled /\ ocupacao /\ now - h_desde >= tempoMinimoPresenca
           /\ ~luzDesligadaManualmente)
          => iluminacaoState

\* C14 witness: a sample not present cleared a flag that a manual light-off
\* had set, and the run of present samples that followed has just switched the
\* light on automatically.
C14_Witness ==
    /\ OccupancySampled /\ ev.out = "luz_auto"
    /\ h_rearme /\ ~h_manual
    /\ iluminacaoState /\ ~luzDesligadaManualmente

(***************************************************************************)
(* Properties: sensor samples                                              *)
(***************************************************************************)
\* A call of loop() (every step but the clock's).
LoopStep ==
    \/ HandleClient
    \/ LerRfid
    \/ AtualizarEstadoOcupacao
    \/ AtualizarDisplayTempUmi
    \/ ControleAutomaticoVentoinha
    \/ VerificarDesligamentoPorAusencia

\* C15: a due temperature reading that is not valid leaves temperaturaAtual as
\* it was, restarts the sampling interval and hands over to
\* controleAutomaticoVentoinha, which leaves the automatic fan as it was in
\* that cycle; and in every reachable state loop() can take its next step.
C15_InvalidSampleHarmless ==
    /\ [][ /\ ev'.out = "erro_sensor"
                => /\ UNCHANGED << temperaturaAtual, ventilacaoAutomaticaState >>
                   /\ millisAnterior' = now
                   /\ LeituraNaoDevida(now', millisAnterior')
                   /\ pc' = "controleAutomaticoVentoinha"
           /\ h_leitura = "erro_sensor"
                => UNCHANGED << temperaturaAtual, ventilacaoAutomaticaState >> ]_vars
    /\ [](ENABLED LoopStep)

\* C15 witness: a reading was not valid in a cycle in which an earlier reading
\* of 25 degrees keeps the automatic fan on, and controleAutomaticoVentoinha
\* runs next.
C15_Witness ==
    /\ ev.op = "atualizarDisplayTempUmi" /\ ev.out = "erro_sensor"
    /\ h_leitura = "erro_sensor" /\ pc = "controleAutomaticoVentoinha"
    /\ temperaturaAtual = 25 /\ ventilacaoAutomaticaState

(***************************************************************************)
(* C16: a distance sample that is zero, negative or above the threshold is *)
(* not present: after that call of atualizarEstadoOcupacao ocupacao is     *)
(* false, tempoInicioPresenca is 0 and luzDesligadaManualmente is false,   *)
(* whichever of the three kinds the sample was; and ocupacao is true after *)
(* a sample exactly when 0 < distancia <= DISTANCIA_PRESENCA_CM.           *)
(***************************************************************************)
NotPresentSample ==
    OccupancySampled /\ (ev.dist <= 0 \/ ev.dist > DISTANCIA_PRESENCA_CM)

C16_NotPresentSample ==
    /\ OccupancySampled
          => (ocupacao <=> (0 < ev.dist /\ ev.dist <= DISTANCIA_PRESENCA_CM))
    /\ NotPresentSample
          => /\ ~ocupacao
             /\ tempoInicioPresenca = 0
             /\ ~luzDesligadaManualmente
             /\ ev.out = "ausente"

C16_Witness ==
    /\ NotPresentSample /\ ev.dist = -1 /\ ev.flag
    /\ ~ocupacao /\ tempoInicioPresenca = 0 /\ ~luzDesligadaManualmente

(***************************************************************************)
(* C17: mensagemSistema is read once: a status view shows what the slot    *)
(* holds and leaves the slot empty, so a message is shown again on a later *)
(* status view only if something has written the slot in between.          *)
(***************************************************************************)
C17_ReadOnce ==
    /\ [](StatusServed => mensagemSistema = MSG_VAZIA)
    /\ [][ (ev'.op = "handleClient" /\ ev'.out = "status")
              => /\ ev'.view = mensagemSistema
                 /\ mensagemSistema' = MSG_VAZIA ]_vars

C17_Witness ==
    StatusServed /\ ev.view = MSG_LUZ_VAZIA /\ mensagemSistema = MSG_VAZIA

(***************************************************************************)
(* C18: every message written to mensagemSistema is shown by the first     *)
(* status view served after it was written: a message that is in the slot  *)
(* leaves it only by being shown, never by being overwritten.              *)
(***************************************************************************)
C18_EveryMessageSurfaced ==
    [][ (mensagemSistema # MSG_VAZIA /\ mensagemSistema' # mensagemSistema)
          => /\ ev'.op = "handleClient" /\ ev'.out = "status"
             /\ ev'.view = mensagemSistema ]_vars

(***************************************************************************)
(* C19 as stated: a call of lerRfid, whatever its outcome, leaves          *)
(* ocupacao, tempoInicioPresenca, the light, the manual-off flag, both     *)
(* fans, temperaturaAtual and the timer of the temperature reading         *)
(* (millisAnterior) as they were.                                          *)
(***************************************************************************)
C19_FrameWithTimer ==
    [][ ev'.op = "lerRfid"
          => UNCHANGED << ocupacao, tempoInicioPresenca, iluminacaoState,
                          luzDesligadaManualmente, ventilacaoState,
                          ventilacaoAutomaticaState, temperaturaAtual,
                          millisAnterior >> ]_vars

(***************************************************************************)
(* C19, amended: a call of lerRfid leaves ocupacao, tempoInicioPresenca,   *)
(* the light, the manual-off flag, both fans and temperaturaAtual as they  *)
(* were; without a card it changes nothing, and with a card, whatever the  *)
(* outcome, it changes at most the door and ultimoUID and sets             *)
(* millisAnterior to the current time, so that a temperature reading is    *)
(* taken only when intervaloLeituraTemp has passed since the last reading  *)
(* and since the last card.                                                *)
(***************************************************************************)
C19_FrameExceptTimer ==
    [][ /\ ev'.op = "lerRfid"
             => /\ UNCHANGED << ocupacao, tempoInicioPresenca, iluminacaoState,
                                luzDesligadaManualmente, ventilacaoState,
                                ventilacaoAutomaticaState, temperaturaAtual,
                                mensagemSistema >>
                /\ IF ev'.card = NoCard
                   THEN UNCHANGED << portaAberta, ultimoUID, millisAnterior >>
                   ELSE millisAnterior' = now
        /\ (ev'.op = "atualizarDisplayTempUmi" /\ ev'.out # "")
             => now - millisAnterior >= intervaloLeituraTemp ]_vars

C19_Witness ==
    /\ CardPresented /\ ev.out = "negado"
    /\ millisAnterior = now /\ now > SetupMs
    /\ pc = "atualizarEstadoOcupacao"

(***************************************************************************)
(* C20: ventilacaoAutomaticaState is written by controleAutomaticoVentoinha *)
(* alone: the manual commands, the occupancy update, the switch-off by     *)
(* absence and lerRfid leave it as it was; and controleAutomaticoVentoinha *)
(* leaves the manual fan, the light, the manual-off flag and ocupacao as   *)
(* they were.                                                              *)
(***************************************************************************)
C20_AutoFanFrame ==
    [][ /\ ev'.op # "controleAutomaticoVentoinha"
             => UNCHANGED ventilacaoAutomaticaState
        /\ ev'.op = "controleAutomaticoVentoinha"
             => UNCHANGED << ventilacaoState, iluminacaoState,
                             luzDesligadaManualmente, ocupacao >> ]_vars

\* The fan is on by temperature when the switch-off by absence acts, and stays on.
C20_Witness ==
    /\ ev.op = "verificarDesligamentoPorAusencia" /\ ev.out = "desligadas"
    /\ ventilacaoAutomaticaState /\ ~ventilacaoState /\ ~iluminacaoState

(***************************************************************************)
(* C21: a /luz/off command always leaves the light off; it sets            *)
(* luzDesligadaManualmente when ocupacao is true at the command, also when *)
(* the light was off already, and leaves the flag as it was when ocupacao  *)
(* is false.  A /ventilacao/off command always leaves the manual fan off   *)
(* and leaves the flag as it was.                                          *)
(***************************************************************************)
C21_OffCommands ==
    [][ /\ (ev'.op = "handleClient" /\ ev'.req = "/luz/off")
             => /\ ~iluminacaoState'
                /\ ev'.out = "aceito"
                /\ luzDesligadaManualmente' =
                       (IF ocupacao THEN TRUE ELSE luzDesligadaManualmente)
                /\ UNCHANGED ventilacaoState
        /\ (ev'.op = "handleClient" /\ ev'.req = "/ventilacao/off")
             => /\ ~ventilacaoState'
                /\ ev'.out = "aceito"
                /\ UNCHANGED << luzDesligadaManualmente, iluminacaoState >> ]_vars

\* C21 witness: /luz/off handled in the second pass of loop() with no time
\* passed: the room is occupied, the light has not been on yet, the flag is set.
C21_Witness ==
    /\ CommandHandled("/luz/off") /\ now = SetupMs
    /\ ocupacao /\ ~ev.flag /\ luzDesligadaManualmente /\ ~iluminacaoState

(***************************************************************************)
(* C22: whenever the door is unlocked, ultimoUID is the UID of a           *)
(* credential of the authorized set, the one whose presentation unlocked   *)
(* the door; ultimoUID is written only by the step that unlocks the door;  *)
(* and whenever the door is unlocked and lerRfid is about to run, there is *)
(* a credential of the authorized set whose presentation locks it.         *)
(***************************************************************************)
HolderInSet == portaAberta => \E c \in AuthorizedSet : c.uidByte = ultimoUID

HolderWrittenByUnlock ==
    [][ ultimoUID' # ultimoUID
          => ev'.op = "lerRfid" /\ ~portaAberta /\ portaAberta' ]_vars

UnlockedByHolder ==
    [][ (~portaAberta /\ portaAberta')
          => /\ ev'.op = "lerRfid"
             /\ ev'.card \in AuthorizedSet
             /\ ultimoUID' = ev'.card.uidByte ]_vars

LockByAuthorized == LerRfid /\ ev'.card \in AuthorizedSet /\ ~portaAberta'

NeverStuckOpen == (portaAberta /\ pc = "lerRfid") => ENABLED LockByAuthorized

C22_HolderAuthorized ==
    /\ []HolderInSet
    /\ HolderWrittenByUnlock
    /\ UnlockedByHolder
    /\ []NeverStuckOpen

(***************************************************************************)
(* C23: controleAutomaticoVentoinha is idempotent for a fixed temperature  *)
(* (run twice it gives the fan state it gives run once), so the automatic  *)
(* fan changes only in a pass of loop() in which a reading has been stored *)
(* that changed temperaturaAtual: outside that case the stored temperature *)
(* and the fan are at rest, and a reading that stores the same value       *)
(* leaves them at rest.                                                    *)
(***************************************************************************)
TemperaturasArmazenadas == {0} \cup {ParaInt(t) : t \in DhtTemps}

\* The fan state a run of the controller would leave is the one it finds.
EmRepouso ==
    Histerese(temperaturaAtual, ventilacaoAutomaticaState, mensagemSistema).ligada
        = ventilacaoAutomaticaState

HistereseIdempotente ==
    \A t \in TemperaturasArmazenadas, ligada \in BOOLEAN :
        LET uma == Histerese(t, ligada, MSG_VAZIA).ligada
        IN Histerese(t, uma, MSG_VAZIA).ligada = uma

C23_ChangeOnlyOnNewSample ==
    /\ [](HistereseIdempotente)
    /\ []((pc = "controleAutomaticoVentoinha" /\ h_leitura = "leitura") \/ EmRepouso)
    /\ [][ (ev'.op = "atualizarDisplayTempUmi" /\ UNCHANGED temperaturaAtual)
              => EmRepouso' ]_vars
    /\ [][ ventilacaoAutomaticaState' # ventilacaoAutomaticaState
              => /\ ev'.op = "controleAutomaticoVentoinha"
                 /\ h_leitura = "leitura"
                 /\ ~EmRepouso ]_vars

\* C23 witness: the controller has run on a temperature read one tick earlier,
\* with the fan on at tempacionamento, and has left the fan as it was.
C23_Witness ==
    /\ FanRan /\ ev.out = "" /\ temperaturaAtual = tempacionamento
    /\ ventilacaoAutomaticaState /\ now - millisAnterior = TickMs

(***************************************************************************)
(* C24: in every reachable state, and so at every boundary between two     *)
(* passes of loop(), ocupacao = false implies that luzDesligadaManualmente *)
(* is false and tempoInicioPresenca is 0; a /luz/off handled at the start  *)
(* of a pass, before the distance sample of that pass, does not break it.  *)
(***************************************************************************)
C24_EmptyMeansNoOverride ==
    ~ocupacao => (~luzDesligadaManualmente /\ tempoInicioPresenca = 0)

\* C24 witness: /luz/off has just been handled with the stored occupancy false.
C24_Witness ==
    /\ CommandHandled("/luz/off") /\ pc = "lerRfid"
    /\ ~ocupacao /\ ~luzDesligadaManualmente /\ tempoInicioPresenca = 0

(***************************************************************************)
(* C25: a redirect is sent on the transport exactly once for each of the   *)
(* four command routes, accepted or rejected, and only while such a        *)
(* command is being handled: the automatic activation of the light,        *)
(* controleAutomaticoVentoinha and verificarDesligamentoPorAusencia send   *)
(* no response.                                                            *)
(***************************************************************************)
RedirectSent == ev.resp > 0 /\ ev.out # "status"

C25_RedirectOnlyForCommands ==
    /\ (ev.op = "handleClient" /\ ev.req \in ManualCommands) => ev.resp = 1
    /\ RedirectSent => (ev.op = "handleClient" /\ ev.req \in ManualCommands)

====
